---- MODULE Spec2Model ----
(***************************************************************************)
(* Model of the upload coordination core of matrix-media-repo:             *)
(*   - util/upload_notifier.go : the process-wide waiter registry          *)
(*     (StartWaitForUpload, WaitForUpload, CancelWaitForUpload,            *)
(*     NotifyUpload) with Go's mutex, unbuffered-channel and close         *)
(*     semantics;                                                          *)
(*   - api/r0/upload.go : UploadComplete, the completion coordinator.      *)
(***************************************************************************)
EXTENDS Integers, Sequences, FiniteSets, TLC

(***************************************************************************)
(* Bounds of the model.                                                    *)
(***************************************************************************)
\* number of waiter handles (one owner goroutine each)
NumHandles == 2
\* number of goroutines that call NotifyUpload / UploadComplete
NumCallers == 2
\* how many times CancelWaitForUpload is called in all
MaxCancels == 1

Handles == 1..NumHandles
Callers == 1..NumCallers

(***************************************************************************)
(* Inputs: (origin, mediaId) pairs.  The program uses a pair only through  *)
(* the string origin + mediaId, so two keys are enough; <<"ab", "c">> and  *)
(* <<"a", "bc">> are different pairs with the same string.  Waiters use    *)
(* the first of them, notifiers the second.                                *)
(***************************************************************************)
WaitPairs == {<<"ab", "c">>, <<"a", "b">>}
NotifyPairs == {<<"a", "bc">>, <<"a", "b">>}
NoPair == <<"", "">>

\* the value of waiterLock while no goroutine holds the mutex
Unlocked == <<"free", 0>>

\* key := origin + mediaID
Key(pair) == pair[1] \o pair[2]

VARIABLES
    waiterLock,  \* Unlocked, or the operation holding the sync.Mutex
    waiters,     \* map[string]mediaSet : key -> reference to a mediaSet
    sets,        \* the mediaSet objects, by reference; each a set of handles
    chans,       \* per handle: "none" (not made yet), "open", "closed"
    owner,       \* per handle: the owner goroutine's position and locals
    hist,        \* per handle: what has happened to the channel so far
    cancels,     \* the number of CancelWaitForUpload calls made so far
    notif,       \* per caller: position and locals inside NotifyUpload
    db,          \* the media store's row for the media id RecPair
    object,      \* size and content type of the object the client uploaded
    uc,          \* per caller: position and locals inside UploadComplete
    ucHist,      \* what the UploadComplete calls have done so far
    upArgs,      \* UploadFile: the stream, its declared length, s.tempPath
    hasher,      \* UploadFile: the goroutine of lines 189-195
    pipe,        \* UploadFile: io.Pipe() between ws3 and rs3
    uploader,    \* UploadFile: the goroutine of lines 197-235
    tempFile,    \* UploadFile: the file made by ioutil.TempFile
    bucket,      \* UploadFile: the object at objectName in the bucket
    upMain,      \* UploadFile: the calling goroutine
    stores,      \* ds_s3: map[string]*s3Datastore, dsId -> instance
    getter,      \* per caller: position and locals in GetOrCreateS3Datastore
    made,        \* per dsId: the number of s3Datastore values constructed
    dlArgs,      \* a download: the datastore's options, the object, the name
    dlOut,       \* a download: what the redirect decisions answered
    umArgs,      \* UploadMedia: the request and what its checks will find
    um,          \* UploadMedia: position, request body, checks made, result
    refArgs,     \* a DatastoreRef: its type and its options
    refObject,   \* a DatastoreRef: is there an object at the location
    ref          \* a DatastoreRef: the last call made and its answer

regVars == <<waiterLock, waiters, sets, chans, owner, hist, cancels, notif>>
ucVars == <<db, object, uc, ucHist>>

upVars == <<upArgs, hasher, pipe, uploader, tempFile, bucket, upMain>>

\* what the parts of the program that a specification leaves out keep as is
storeVars == <<stores, getter, made>>
redirVars == <<dlArgs, dlOut>>
umVars == <<umArgs, um>>
refVars == <<refArgs, refObject, ref>>
libVars == <<upVars, storeVars, redirVars, umVars, refVars>>

\* what each specification of one part of the program leaves as it is
notUp == <<regVars, ucVars, storeVars, redirVars, umVars, refVars>>
notStore == <<regVars, ucVars, upVars, redirVars, umVars, refVars>>
notRedir == <<regVars, ucVars, upVars, storeVars, umVars, refVars>>
notUm == <<regVars, ucVars, upVars, storeVars, redirVars, refVars>>
notRef == <<regVars, ucVars, upVars, storeVars, redirVars, umVars>>

vars == <<waiterLock, waiters, sets, chans, owner, hist, cancels, notif, db, object,
          uc, ucHist, upVars, storeVars, redirVars, umVars, refVars>>

(***************************************************************************)
(* Helpers on maps with a dynamic domain.                                  *)
(***************************************************************************)
MapPut(m, k, v) == [x \in DOMAIN m \cup {k} |-> IF x = k THEN v ELSE m[x]]
MapDelete(m, k) == [x \in DOMAIN m \ {k} |-> m[x]]

(***************************************************************************)
(* mediaSet objects are Go maps, held by reference.  A set object lives as *)
(* long as the waiters map or the local variable set of a running          *)
(* WaitForUpload refers to it; make(mediaSet) takes an unused reference.   *)
(***************************************************************************)
SetIds == 1..(2 * NumHandles)
Referenced(ws, ow) ==
    {ws[k] : k \in DOMAIN ws}
        \cup {ow[h].set : h \in {x \in Handles : ow[x].pc \in {"select", "deferred"}}}
MakeMediaSet(ws, ow) ==
    CHOOSE i \in SetIds : /\ i \notin Referenced(ws, ow)
                          /\ \A j \in SetIds \ Referenced(ws, ow) : i <= j
Collect(ss, ws, ow) ==
    [i \in SetIds |-> IF i \in Referenced(ws, ow) THEN ss[i] ELSE {}]

\* recv: which case of the select returned, <<"notify", n>> naming the sender
NoRecv == <<"none", 0>>
InitOwner == [pc |-> "idle", pair |-> NoPair, set |-> 0]
InitHist == [closes |-> 0, recv |-> NoRecv]
InitNotif == [pc |-> "idle", pair |-> NoPair, rem |-> {}, snap |-> {}]

RegInit ==
    /\ waiterLock = Unlocked
    /\ waiters = <<>>
    /\ sets = [i \in SetIds |-> {}]
    /\ chans = [h \in Handles |-> "none"]
    /\ owner = [h \in Handles |-> InitOwner]
    /\ hist = [h \in Handles |-> InitHist]
    /\ cancels = 0
    /\ notif = [n \in Callers |-> InitNotif]

(***************************************************************************)
(* StartWaitForUpload: one critical section, never blocks while holding    *)
(* the lock.  ch := make(chan struct{}); set[ch] = struct{}{}.             *)
(***************************************************************************)
StartWaitForUpload(h, pair) ==
    /\ owner[h].pc = "idle"
    /\ waiterLock = Unlocked
    /\ LET key == Key(pair) IN
       IF key \in DOMAIN waiters
       THEN /\ sets' = [sets EXCEPT ![waiters[key]] = @ \cup {h}]
            /\ UNCHANGED waiters
       ELSE LET s == MakeMediaSet(waiters, owner) IN
            /\ sets' = [sets EXCEPT ![s] = {h}]
            /\ waiters' = MapPut(waiters, key, s)
    /\ chans' = [chans EXCEPT ![h] = "open"]
    /\ owner' = [owner EXCEPT ![h].pc = "started", ![h].pair = pair]
    /\ UNCHANGED <<waiterLock, hist, cancels, notif>>

(***************************************************************************)
(* close(ch) as Go defines it: closing a closed channel panics.            *)
(***************************************************************************)
ClosePanics(h) == chans[h] = "closed"

(***************************************************************************)
(* CancelWaitForUpload.  The unlock is deferred, so it also runs when      *)
(* close(ch) panics; the statements after the close do not.                *)
(***************************************************************************)
CancelWaitForUpload(h) ==
    /\ chans[h] # "none"
    /\ cancels < MaxCancels
    /\ waiterLock = Unlocked
    /\ cancels' = cancels + 1
    /\ LET key == Key(owner[h].pair) IN
       IF key \notin DOMAIN waiters
       THEN UNCHANGED <<waiters, sets, chans, hist>>
       ELSE LET s == waiters[key]
                after == sets[s] \ {h}
                deleted == [sets EXCEPT ![s] = after]
            IN IF ClosePanics(h)
               THEN /\ hist' = [hist EXCEPT ![h].closes = @ + 1]
                    /\ sets' = deleted
                    /\ UNCHANGED <<waiters, chans>>
               ELSE /\ hist' = [hist EXCEPT ![h].closes = @ + 1]
                    /\ chans' = [chans EXCEPT ![h] = "closed"]
                    /\ waiters' = IF after = {}
                                  THEN MapDelete(waiters, key)
                                  ELSE waiters
                    /\ sets' = Collect(deleted, waiters', owner)
    /\ UNCHANGED <<waiterLock, owner, notif>>

(***************************************************************************)
(* WaitForUpload, first critical section (lines 73-83): fetch the key's    *)
(* set, creating an empty one when the key is absent, and keep the         *)
(* reference in the local variable set.                                    *)
(***************************************************************************)
WaitForUpload_Enter(h) ==
    /\ owner[h].pc = "started"
    /\ waiterLock = Unlocked
    /\ LET key == Key(owner[h].pair) IN
       IF key \in DOMAIN waiters
       THEN /\ owner' = [owner EXCEPT ![h].pc = "select",
                                      ![h].set = waiters[key]]
            /\ UNCHANGED <<waiters, sets>>
       ELSE LET s == MakeMediaSet(waiters, owner) IN
            /\ sets' = [sets EXCEPT ![s] = {}]
            /\ waiters' = MapPut(waiters, key, s)
            /\ owner' = [owner EXCEPT ![h].pc = "select", ![h].set = s]
    /\ UNCHANGED <<waiterLock, chans, hist, cancels, notif>>

(***************************************************************************)
(* The select of WaitForUpload.  A receive from a closed channel succeeds  *)
(* at once (case <-ch: return true); the timer of time.After may fire at   *)
(* any moment (return false).  The third way out is the rendezvous with a  *)
(* sender, NotifyUpload_Send below.                                        *)
(***************************************************************************)
WaitForUpload_RecvClosed(h) ==
    /\ owner[h].pc = "select"
    /\ chans[h] = "closed"
    /\ owner' = [owner EXCEPT ![h].pc = "deferred"]
    /\ hist' = [hist EXCEPT ![h].recv = <<"close", 0>>]
    /\ UNCHANGED <<waiterLock, waiters, sets, chans, cancels, notif>>

WaitForUpload_Timeout(h) ==
    /\ owner[h].pc = "select"
    /\ owner' = [owner EXCEPT ![h].pc = "deferred"]
    /\ hist' = [hist EXCEPT ![h].recv = <<"timer", 0>>]
    /\ UNCHANGED <<waiterLock, waiters, sets, chans, cancels, notif>>

\* the value WaitForUpload is returning (it is in its deferred function):
\* true from case <-ch, false from the timer
WaitResult(h) == hist[h].recv[1] \in {"notify", "close"}

(***************************************************************************)
(* WaitForUpload's deferred function (lines 85-100).  It works on the set  *)
(* reference taken on entry but deletes the key from the map by name.  The *)
(* unlock is the last statement of the function, not deferred: a panic in  *)
(* close(ch) leaves the mutex locked.                                      *)
(***************************************************************************)
WaitForUpload_Defer(h) ==
    /\ owner[h].pc = "deferred"
    /\ waiterLock = Unlocked
    /\ LET key == Key(owner[h].pair)
           s == owner[h].set
           after == sets[s] \ {h}
           deleted == [sets EXCEPT ![s] = after]
       IN IF ClosePanics(h)
          THEN /\ hist' = [hist EXCEPT ![h].closes = @ + 1, ![h].recv = NoRecv]
               /\ owner' = [owner EXCEPT ![h].pc = "panicked", ![h].set = 0]
               /\ waiterLock' = <<"wait", h>>
               /\ sets' = Collect(deleted, waiters, owner')
               /\ UNCHANGED <<waiters, chans>>
          ELSE /\ hist' = [hist EXCEPT ![h].closes = @ + 1, ![h].recv = NoRecv]
               /\ chans' = [chans EXCEPT ![h] = "closed"]
               /\ waiters' = IF after = {}
                             THEN MapDelete(waiters, key)
                             ELSE waiters
               /\ owner' = [owner EXCEPT ![h].pc = "done", ![h].set = 0]
               /\ sets' = Collect(deleted, waiters', owner')
               /\ UNCHANGED waiterLock
    /\ UNCHANGED <<cancels, notif>>

(***************************************************************************)
(* NotifyUpload.  NotifyUpload_Lock takes the mutex and reads the key's    *)
(* set (nobody can change it while the mutex is held); each send is a      *)
(* rendezvous on an unbuffered channel, made while the mutex is held; the  *)
(* deferred unlock runs when the loop is over.                             *)
(***************************************************************************)
NotifyUpload_Lock(n, pair) ==
    /\ notif[n].pc = "idle"
    /\ waiterLock = Unlocked
    /\ LET key == Key(pair) IN
       IF key \notin DOMAIN waiters
       THEN /\ notif' = [notif EXCEPT ![n].pc = "done"]
            /\ UNCHANGED waiterLock
       ELSE /\ notif' = [notif EXCEPT ![n].pc = "sending",
                                      ![n].pair = pair,
                                      ![n].rem = sets[waiters[key]],
                                      ![n].snap = sets[waiters[key]]]
            /\ waiterLock' = <<"notify", n>>
    /\ UNCHANGED <<waiters, sets, chans, owner, hist, cancels>>

\* channel <- struct{}{} : needs a receiver that is in its select
ReceiverReady(h) == owner[h].pc = "select" /\ chans[h] = "open"

NotifyUpload_Send(n, h) ==
    /\ notif[n].pc = "sending"
    /\ h \in notif[n].rem
    /\ ReceiverReady(h)
    /\ notif' = [notif EXCEPT ![n].rem = @ \ {h}]
    /\ owner' = [owner EXCEPT ![h].pc = "deferred"]
    /\ hist' = [hist EXCEPT ![h].recv = <<"notify", n>>]
    /\ UNCHANGED <<waiterLock, waiters, sets, chans, cancels>>

\* NotifyUpload leaving its loop after the first send
NotifyUpload_Unlock_AfterFirst(n) ==
    /\ notif[n].pc = "sending"
    /\ notif[n].rem = {} \/ notif[n].rem # notif[n].snap
    /\ waiterLock = <<"notify", n>>
    /\ notif' = [notif EXCEPT ![n] = [InitNotif EXCEPT !.pc = "done"]]
    /\ waiterLock' = Unlocked
    /\ UNCHANGED <<waiters, sets, chans, owner, hist, cancels>>

NotifyUpload_Unlock(n) ==
    /\ notif[n].pc = "sending"
    /\ notif[n].rem = {}
    /\ waiterLock = <<"notify", n>>
    /\ notif' = [notif EXCEPT ![n] = [InitNotif EXCEPT !.pc = "done"]]
    /\ waiterLock' = Unlocked
    /\ UNCHANGED <<waiters, sets, chans, owner, hist, cancels>>

(***************************************************************************)
(* UploadComplete (api/r0/upload.go).  The media store holds one row, for  *)
(* the media id RecPair of this server; requests may name it, another      *)
(* media id, another server or no server.                                  *)
(***************************************************************************)
RecPair == <<"a", "bc">>
ThisHost == "a"
Requests == {RecPair, <<"a", "zz">>, <<"x", "bc">>, <<"", "bc">>}

\* util.IsServerOurs
IsServerOurs(server) == server = ThisHost

NoMedia == [exists |-> FALSE, Location |-> "", SizeBytes |-> 0,
            ContentType |-> "", Sha256Hash |-> ""]
\* a row as CreateMedia persists it: with the location of a pre-signed
\* upload when the datastore redirects uploads, without one otherwise
Reserved(location) == [NoMedia EXCEPT !.exists = TRUE, !.Location = location]
\* a row as a finished upload leaves it
Finalized == [exists |-> TRUE, Location |-> "obj", SizeBytes |-> 3,
              ContentType |-> "image/png", Sha256Hash |-> "sha"]
InitRows == {NoMedia, Reserved(""), Reserved("obj"), Finalized}

\* the objects a client may have put at the pre-signed URL; an empty file
\* is one of them
Objects == [Size : {0, 3}, ContentType : {"image/png", "text/plain"}]
\* what ds.ObjectInfo answers: an error, or the object's size and type
StatError == [ok |-> FALSE, Size |-> 0, ContentType |-> ""]
ObjectInfo(ok) ==
    IF ok THEN [ok |-> TRUE, Size |-> object.Size,
                ContentType |-> object.ContentType]
    ELSE StatError

InitUc == [pc |-> "idle", req |-> NoPair, media |-> NoMedia,
           result |-> "none", bg |-> "none"]
InitUcHist == [sizeWrites |-> 0, hashWrites |-> 0, notifies |-> 0]

UcInit ==
    /\ db \in InitRows
    /\ object \in Objects
    /\ uc = [p \in Callers |-> InitUc]
    /\ ucHist = InitUcHist

\* an early return that leaves the digest goroutine started
Return_Digesting(p, result) ==
    [uc EXCEPT ![p].pc = "returned", ![p].result = result, ![p].media = NoMedia,
               ![p].bg = "running"]

Return(p, result) ==
    [uc EXCEPT ![p].pc = "returned", ![p].result = result, ![p].media = NoMedia]

\* UploadComplete_Get without the check of lines 112-115
UploadComplete_Get_NoSizeCheck(p, req, statOk) ==
    /\ uc[p].pc = "idle"
    /\ LET server == req[1]
           found == req = RecPair /\ db.exists
           info == ObjectInfo(statOk)
       IN uc' = IF server # "" /\ (~IsServerOurs(server) \/ server # ThisHost)
                THEN Return(p, "notfound")
                ELSE IF ~found
                THEN Return(p, "notfound")
                ELSE IF db.Location = ""
                THEN Return(p, "notfound")
                ELSE IF ~info.ok
                THEN Return(p, "error")
                ELSE [uc EXCEPT ![p].pc = "statted", ![p].req = req,
                                ![p].media = [db EXCEPT
                                    !.ContentType = info.ContentType,
                                    !.SizeBytes = info.Size]]
    /\ UNCHANGED <<db, object, ucHist>>
    /\ UNCHANGED regVars

\* lines 94-130: the server check, db.Get, the checks on the row read, then
\* ds.ObjectInfo, whose answer goes into the local copy of the row.  (The
\* lookup reads nothing another request writes, so the two reads are one
\* step.)
UploadComplete_Get(p, req, statOk) ==
    /\ uc[p].pc = "idle"
    /\ LET server == req[1]
           found == req = RecPair /\ db.exists
           info == ObjectInfo(statOk)
       IN uc' = IF server # "" /\ (~IsServerOurs(server) \/ server # ThisHost)
                THEN Return(p, "notfound")
                ELSE IF ~found
                THEN Return(p, "notfound")
                ELSE IF db.Location = ""
                THEN Return(p, "notfound")
                ELSE IF db.SizeBytes > 0
                THEN Return(p, "noop")
                ELSE IF ~info.ok
                THEN Return(p, "error")
                ELSE [uc EXCEPT ![p].pc = "statted", ![p].req = req,
                                ![p].media = [db EXCEPT
                                    !.ContentType = info.ContentType,
                                    !.SizeBytes = info.Size]]
    /\ UNCHANGED <<db, object, ucHist>>
    /\ UNCHANGED regVars

\* UploadComplete_Update with the digest goroutine started before line 137
UploadComplete_Update_StartsDigest(p, ok) ==
    /\ uc[p].pc = "statted"
    /\ IF ok
       THEN /\ db' = uc[p].media
            /\ uc' = [uc EXCEPT ![p].pc = "updated", ![p].bg = "running"]
            /\ ucHist' = [ucHist EXCEPT !.sizeWrites = @ + 1]
       ELSE /\ uc' = Return(p, "error")
            /\ UNCHANGED <<db, ucHist>>
    /\ UNCHANGED <<object, regVars>>

\* lines 132-135: db.Update(media) writes the local copy over the row
UploadComplete_Update(p, ok) ==
    /\ uc[p].pc = "statted"
    /\ IF ok
       THEN /\ db' = uc[p].media
            /\ uc' = [uc EXCEPT ![p].pc = "updated"]
            /\ ucHist' = [ucHist EXCEPT !.sizeWrites = @ + 1]
       ELSE /\ uc' = Return(p, "error")
            /\ UNCHANGED <<db, ucHist>>
    /\ UNCHANGED <<object, regVars>>

\* lines 139-172, once NotifyUpload has returned: the cache is told, the
\* digest goroutine is started with the local copy, the request succeeds
Succeed(p) ==
    [uc EXCEPT ![p].pc = "returned", ![p].result = "ok", ![p].bg = "running"]

\* line 137: util.NotifyUpload(rctx, server, mediaId), up to its lock; with
\* no set under the key it returns at once, and so does UploadComplete
UploadComplete_Notify(p) ==
    /\ uc[p].pc = "updated"
    /\ NotifyUpload_Lock(p, uc[p].req)
    /\ uc' = IF notif'[p].pc = "done"
             THEN Succeed(p)
             ELSE [uc EXCEPT ![p].pc = "notifying"]
    /\ ucHist' = [ucHist EXCEPT !.notifies = @ + 1]
    /\ UNCHANGED <<db, object>>

\* line 137, the end of NotifyUpload's loop, and lines 139-172
UploadComplete_Return(p) ==
    /\ uc[p].pc = "notifying"
    /\ NotifyUpload_Unlock(p)
    /\ uc' = Succeed(p)
    /\ UNCHANGED <<db, object, ucHist>>

\* lines 143-166: the goroutine downloads and hashes the object and writes
\* its copy of the row, now with the hash, through a store of its own;
\* each of the three steps may fail, which ends the goroutine
DigestOutcomes == {"download failed", "hash failed", "update failed", "ok"}

UploadComplete_Digest(p, outcome) ==
    /\ uc[p].bg = "running"
    /\ uc' = [uc EXCEPT ![p].bg = "done", ![p].media = NoMedia]
    /\ IF outcome = "ok"
       THEN /\ db' = [uc[p].media EXCEPT !.Sha256Hash = "sha"]
            /\ ucHist' = [ucHist EXCEPT !.hashWrites = @ + 1]
       ELSE UNCHANGED <<db, ucHist>>
    /\ UNCHANGED <<object, regVars>>

(***************************************************************************)
(* s3Datastore.UploadFile (ds_s3).  The stream is a sequence of bytes; one *)
(* Read of the TeeReader moves one byte.  The hasher goroutine reads the   *)
(* stream through the TeeReader, which writes every byte it reads into the *)
(* pipe; the uploader goroutine reads the other end of the pipe.           *)
(***************************************************************************)
MaxLen == 2
Bytes == {1, 2}
ByteSeqs == UNION {[1..n -> Bytes] : n \in 0..MaxLen}

\* the stream never fails to be read
NoReadError == -1

\* what a caller passes: the bytes the stream holds, after how many of
\* them a Read of the stream fails (if it does), the declared length (0:
\* unknown, else the true length), and the datastore's tempPath option
UploadInputs ==
    {[bytes |-> b, readErrAt |-> e, expectedLength |-> l, tempPath |-> t] :
        b \in ByteSeqs, e \in {NoReadError} \cup (0..MaxLen), l \in 0..MaxLen,
        t \in {"", "/tmp/mr"}}
UploadArgs ==
    {a \in UploadInputs : /\ a.readErrAt <= Len(a.bytes)
                          /\ a.expectedLength \in {0, Len(a.bytes)}}

\* util.GetSha256HashOfStream: the digest is computed byte by byte from a
\* running state; distinct byte sequences have distinct digests
HashInit == 0
HashWrite(sum, b) == 3 * sum + b
RECURSIVE Sha256(_)
Sha256(bytes) ==
    IF bytes = <<>> THEN HashInit
    ELSE HashWrite(Sha256(SubSeq(bytes, 1, Len(bytes) - 1)), bytes[Len(bytes)])

NoObject == [exists |-> FALSE, bytes |-> <<>>]
NoDescriptor == [Location |-> "", Sha256Hash |-> HashInit, SizeBytes |-> 0]
NoResult == [err |-> "", obj |-> NoDescriptor]

InitHasher == [pc |-> "none", pos |-> 0, hash |-> HashInit, hashErr |-> FALSE]
InitPipe == [data |-> <<>>, closed |-> FALSE]
InitUploader == [pc |-> "none", expectedLength |-> 0, source |-> "pipe",
                 sent |-> <<>>, sizeBytes |-> 0, uploadErr |-> FALSE]
InitUpMain == [pc |-> "idle", done |-> 0, result |-> NoResult]

\* line 237: the number of values UploadFile receives from done
DoneNeeded == 2

UpIdle ==
    /\ upArgs = [bytes |-> <<>>, readErrAt |-> NoReadError,
                 expectedLength |-> 0, tempPath |-> ""]
    /\ hasher = InitHasher
    /\ pipe = InitPipe
    /\ uploader = InitUploader
    /\ tempFile = NoObject
    /\ bucket = NoObject
    /\ upMain = InitUpMain

UpInit ==
    /\ upArgs \in UploadArgs
    /\ hasher = InitHasher
    /\ pipe = InitPipe
    /\ uploader = InitUploader
    /\ tempFile = NoObject
    /\ bucket = NoObject
    /\ upMain = InitUpMain

\* lines 169-195: generateObjectKey, the pipe, the two goroutines
UploadFile_Start(keyOk) ==
    /\ upMain.pc = "idle"
    /\ IF keyOk
       THEN /\ upMain' = [upMain EXCEPT !.pc = "waiting"]
            /\ hasher' = [hasher EXCEPT !.pc = "reading"]
            /\ uploader' = [uploader EXCEPT !.pc = "start",
                               !.expectedLength = upArgs.expectedLength]
       ELSE /\ upMain' = [upMain EXCEPT !.pc = "returned", !.result.err = "key"]
            /\ UNCHANGED <<hasher, uploader>>
    /\ UNCHANGED <<upArgs, pipe, tempFile, bucket>>

\* line 192, one Read of the TeeReader: an error or the end of the stream
\* ends the hashing; a byte is written to ws3, and the Write returns only
\* when the other end has read it
Hasher_Read ==
    /\ hasher.pc = "reading"
    /\ IF hasher.pos = upArgs.readErrAt
       THEN /\ hasher' = [hasher EXCEPT !.pc = "signal", !.hashErr = TRUE]
            /\ UNCHANGED pipe
       ELSE IF hasher.pos = Len(upArgs.bytes)
       THEN /\ hasher' = [hasher EXCEPT !.pc = "signal"]
            /\ UNCHANGED pipe
       ELSE /\ hasher' = [hasher EXCEPT !.pc = "writing", !.pos = @ + 1]
            /\ pipe' = [pipe EXCEPT !.data = <<upArgs.bytes[hasher.pos + 1]>>]
    /\ UNCHANGED <<upArgs, uploader, tempFile, bucket, upMain>>

\* the hasher sending both values UploadFile waits for
Hasher_Done_Twice ==
    /\ hasher.pc = "signal"
    /\ upMain.pc = "waiting" /\ upMain.done = 0
    /\ hasher' = [hasher EXCEPT !.pc = "closing"]
    /\ upMain' = [upMain EXCEPT !.done = DoneNeeded]
    /\ UNCHANGED <<upArgs, pipe, uploader, tempFile, bucket>>

\* line 194: done <- true, received by line 238
Hasher_Done ==
    /\ hasher.pc = "signal"
    /\ upMain.pc = "waiting" /\ upMain.done < DoneNeeded
    /\ hasher' = [hasher EXCEPT !.pc = "closing"]
    /\ upMain' = [upMain EXCEPT !.done = @ + 1]
    /\ UNCHANGED <<upArgs, pipe, uploader, tempFile, bucket>>

\* line 190: the deferred ws3.Close(), which runs after line 194
Hasher_Close ==
    /\ hasher.pc = "closing"
    /\ hasher' = [hasher EXCEPT !.pc = "ended"]
    /\ pipe' = [pipe EXCEPT !.closed = TRUE]
    /\ UNCHANGED <<upArgs, uploader, tempFile, bucket, upMain>>

\* a Read of rs3 finds a byte, or the end of the stream once ws3 is closed
PipeHasByte == pipe.data # <<>>
PipeAtEOF == pipe.data = <<>> /\ pipe.closed
\* a byte is read from rs3: the Write of the TeeReader returns and the
\* hasher takes the byte into the digest
PipeTake ==
    /\ pipe' = [pipe EXCEPT !.data = <<>>]
    /\ hasher' = [hasher EXCEPT !.pc = "reading",
                                !.hash = HashWrite(@, pipe.data[1])]

\* lines 198-222, up to the first read: with a known length the put reads
\* the pipe; with an unknown one and no tempPath it does so with length -1;
\* with a tempPath a temp file is made, or uploadErr is set
Uploader_Begin(tempOk) ==
    /\ uploader.pc = "start"
    /\ IF uploader.expectedLength > 0
       THEN /\ uploader' = [uploader EXCEPT !.pc = "putting"]
            /\ UNCHANGED tempFile
       ELSE IF upArgs.tempPath = ""
       THEN /\ uploader' = [uploader EXCEPT !.pc = "putting",
                                            !.expectedLength = -1]
            /\ UNCHANGED tempFile
       ELSE IF tempOk
       THEN /\ uploader' = [uploader EXCEPT !.pc = "copying"]
            /\ tempFile' = [exists |-> TRUE, bytes |-> <<>>]
       ELSE /\ uploader' = [uploader EXCEPT !.pc = "discarding",
                                            !.uploadErr = TRUE]
            /\ UNCHANGED tempFile
    /\ UNCHANGED <<upArgs, hasher, pipe, bucket, upMain>>

\* line 204: io.Copy(ioutil.Discard, rs3) reads to the end of the stream
Uploader_Discard ==
    /\ uploader.pc = "discarding"
    /\ \/ /\ PipeHasByte
          /\ PipeTake
          /\ UNCHANGED uploader
       \/ /\ PipeAtEOF
          /\ uploader' = [uploader EXCEPT !.pc = "signal"]
          /\ UNCHANGED <<hasher, pipe>>
    /\ UNCHANGED <<upArgs, tempFile, bucket, upMain>>

\* line 209: io.Copy(f, rs3).  It ends at the end of the stream or at the
\* first Write to the temp file that fails; its results are the number of
\* bytes written and the error
Uploader_Copy(writeOk) ==
    /\ uploader.pc = "copying"
    /\ \/ /\ PipeHasByte
          /\ PipeTake
          /\ IF writeOk
             THEN /\ tempFile' = [tempFile EXCEPT
                                      !.bytes = Append(@, pipe.data[1])]
                  /\ UNCHANGED uploader
             ELSE /\ uploader' = [uploader EXCEPT !.pc = "reopen",
                                      !.expectedLength = Len(tempFile.bytes),
                                      !.uploadErr = TRUE]
                  /\ UNCHANGED tempFile
       \/ /\ PipeAtEOF
          /\ writeOk
          /\ uploader' = [uploader EXCEPT !.pc = "reopen",
                              !.expectedLength = Len(tempFile.bytes),
                              !.uploadErr = FALSE]
          /\ UNCHANGED <<hasher, pipe, tempFile>>
    /\ UNCHANGED <<upArgs, bucket, upMain>>

\* lines 210-217: the temp file is closed and opened again; os.Open's
\* error is assigned to uploadErr whatever it held
Uploader_Reopen(openOk) ==
    /\ uploader.pc = "reopen"
    /\ uploader' = IF openOk
                   THEN [uploader EXCEPT !.pc = "putting", !.source = "temp",
                                         !.uploadErr = FALSE]
                   ELSE [uploader EXCEPT !.pc = "signal", !.uploadErr = TRUE]
    /\ UNCHANGED <<upArgs, hasher, pipe, tempFile, bucket, upMain>>

\* line 231 when it succeeds: the object holds the bytes the put has read
PutSucceeds(bytes) ==
    /\ uploader' = [uploader EXCEPT !.pc = "signal", !.sent = bytes,
                                    !.sizeBytes = Len(bytes),
                                    !.uploadErr = FALSE]
    /\ bucket' = [exists |-> TRUE, bytes |-> bytes]

\* line 231 when it fails
PutFails ==
    uploader' = [uploader EXCEPT !.pc = "signal", !.sizeBytes = 0,
                                 !.uploadErr = TRUE]

\* line 231, PutObjectWithContext reading rs3: it takes expectedLength
\* bytes, or all bytes to the end of the stream when the length is -1; a
\* stream that ends before expectedLength bytes fails the put
Uploader_PutFromPipe ==
    /\ uploader.pc = "putting" /\ uploader.source = "pipe"
    /\ \/ /\ PipeHasByte
          /\ PipeTake
          /\ LET sent == Append(uploader.sent, pipe.data[1])
             IN IF Len(sent) = uploader.expectedLength
                THEN PutSucceeds(sent)
                ELSE /\ uploader' = [uploader EXCEPT !.sent = sent]
                     /\ UNCHANGED bucket
       \/ /\ PipeAtEOF
          /\ UNCHANGED <<hasher, pipe>>
          /\ IF uploader.expectedLength = -1
             THEN PutSucceeds(uploader.sent)
             ELSE PutFails /\ UNCHANGED bucket
    /\ UNCHANGED <<upArgs, tempFile, upMain>>

\* line 231, PutObjectWithContext reading the temp file
Uploader_PutFromTemp ==
    /\ uploader.pc = "putting" /\ uploader.source = "temp"
    /\ PutSucceeds(SubSeq(tempFile.bytes, 1, uploader.expectedLength))
    /\ UNCHANGED <<upArgs, hasher, pipe, tempFile, upMain>>

\* line 231, the backend or the connection fails: the put returns an
\* error; what it had sent may or may not have become the object
Uploader_PutError(stored) ==
    /\ uploader.pc = "putting"
    /\ PutFails
    /\ bucket' = IF stored
                 THEN [exists |-> TRUE,
                       bytes |-> IF uploader.source = "temp"
                                 THEN tempFile.bytes ELSE uploader.sent]
                 ELSE bucket
    /\ UNCHANGED <<upArgs, hasher, pipe, tempFile, upMain>>

\* lines 205, 213, 234: done <- true, received by line 238
Uploader_Done ==
    /\ uploader.pc = "signal"
    /\ upMain.pc = "waiting" /\ upMain.done < DoneNeeded
    /\ uploader' = [uploader EXCEPT !.pc = "cleanup"]
    /\ upMain' = [upMain EXCEPT !.done = @ + 1]
    /\ UNCHANGED <<upArgs, hasher, pipe, tempFile, bucket>>

\* lines 208, 217, 225: the deferred calls of the goroutine, which run
\* after its done <- true; os.Remove deletes the temp file
Uploader_Deferred ==
    /\ uploader.pc = "cleanup"
    /\ uploader' = [uploader EXCEPT !.pc = "ended"]
    /\ tempFile' = NoObject
    /\ UNCHANGED <<upArgs, hasher, pipe, bucket, upMain>>

\* lines 241-256 with the check of uploadErr before that of hashErr
UploadFile_Result_UploadErrFirst ==
    /\ upMain.pc = "waiting" /\ upMain.done = DoneNeeded
    /\ LET obj == [Location |-> "objectName", Sha256Hash |-> hasher.hash,
                   SizeBytes |-> uploader.sizeBytes]
       IN IF uploader.uploadErr
          THEN /\ upMain' = [upMain EXCEPT !.pc = "returned",
                                           !.result.err = "upload"]
               /\ UNCHANGED bucket
          ELSE IF hasher.hashErr
          THEN /\ bucket' = NoObject
               /\ upMain' = [upMain EXCEPT !.pc = "returned",
                                           !.result.err = "hash"]
          ELSE /\ upMain' = [upMain EXCEPT !.pc = "returned",
                                           !.result.obj = obj]
               /\ UNCHANGED bucket
    /\ UNCHANGED <<upArgs, hasher, pipe, uploader, tempFile>>

\* lines 241-256: the descriptor, or the error, UploadFile returns
UploadFile_Result ==
    /\ upMain.pc = "waiting" /\ upMain.done = DoneNeeded
    /\ LET obj == [Location |-> "objectName", Sha256Hash |-> hasher.hash,
                   SizeBytes |-> uploader.sizeBytes]
       IN IF hasher.hashErr
          THEN /\ bucket' = NoObject
               /\ upMain' = [upMain EXCEPT !.pc = "returned",
                                           !.result.err = "hash"]
          ELSE IF uploader.uploadErr
          THEN /\ upMain' = [upMain EXCEPT !.pc = "returned",
                                           !.result.err = "upload"]
               /\ UNCHANGED bucket
          ELSE /\ upMain' = [upMain EXCEPT !.pc = "returned",
                                           !.result.obj = obj]
               /\ UNCHANGED bucket
    /\ UNCHANGED <<upArgs, hasher, pipe, uploader, tempFile>>

(***************************************************************************)
(* GetOrCreateS3Datastore (ds_s3) and its package-level map.  A caller     *)
(* names a datastore id and passes that datastore's options.  An instance  *)
(* is named by its id and by its number among those made for the id.       *)
(***************************************************************************)
DsIds == {"ds1", "ds2"}
\* conf.Options: with or without the four required options of line 51
Confs == {"complete", "incomplete"}
NoInstance == <<"", 0>>
InitGetter == [pc |-> "idle", dsId |-> "", ret |-> NoInstance]

StoreInit ==
    /\ stores = <<>>
    /\ getter = [c \in Callers |-> InitGetter]
    /\ made = [d \in DsIds |-> 0]

\* lines 40-53: the lookup in stores, then the check of the options; a
\* caller whose call has ended may call again
GetOrCreateS3Datastore_Lookup(c, dsId, conf) ==
    /\ getter[c].pc \in {"idle", "returned", "failed"}
    /\ getter' = [getter EXCEPT ![c] =
          IF dsId \in DOMAIN stores
          THEN [pc |-> "returned", dsId |-> dsId, ret |-> stores[dsId]]
          ELSE IF conf = "incomplete"
          THEN [pc |-> "failed", dsId |-> dsId, ret |-> NoInstance]
          ELSE [pc |-> "constructing", dsId |-> dsId, ret |-> NoInstance]]
    /\ UNCHANGED <<stores, made>>

\* lines 73-94: the minio client is made, or its error returned; then the
\* s3Datastore value is made
GetOrCreateS3Datastore_Construct(c, clientOk) ==
    /\ getter[c].pc = "constructing"
    /\ IF clientOk
       THEN /\ made' = [made EXCEPT ![getter[c].dsId] = @ + 1]
            /\ getter' = [getter EXCEPT ![c].pc = "storing",
                             ![c].ret = <<getter[c].dsId, made[getter[c].dsId] + 1>>]
       ELSE /\ getter' = [getter EXCEPT ![c].pc = "failed"]
            /\ UNCHANGED made
    /\ UNCHANGED stores

\* lines 95-96: stores[dsId] = s3ds; return s3ds, nil
GetOrCreateS3Datastore_Store(c) ==
    /\ getter[c].pc = "storing"
    /\ stores' = MapPut(stores, getter[c].dsId, getter[c].ret)
    /\ getter' = [getter EXCEPT ![c].pc = "returned"]
    /\ UNCHANGED made

\* line 95 run by two goroutines at once: the map is written without a
\* lock, and the Go runtime may end the process ("concurrent map writes")
ConcurrentMapWrites ==
    /\ \E c, e \in Callers :
          c # e /\ getter[c].pc = "storing" /\ getter[e].pc = "storing"
    /\ getter' = [c \in Callers |-> [getter[c] EXCEPT !.pc = "crashed"]]
    /\ UNCHANGED <<stores, made>>

\* callers are numbered in the order of their calls
NextGetter(c) ==
    getter[c].pc = "idle" => \A e \in Callers : e < c => getter[e].pc # "idle"

(***************************************************************************)
(* The redirect decisions for a download: DatastoreRef.ShouldRedirect-     *)
(* Download and GetDownloadURL (datastore), which DownloadMedia consults,  *)
(* and DownloadOrRedirect (datastores).                                    *)
(***************************************************************************)
\* strconv.ParseBool, whose error the callers drop: false for other text
ParseBool(str) == str \in {"1", "t", "T", "TRUE", "true", "True"}

\* an option that is not set
Unset == "(unset)"
DatastoreTypes == {"file", "s3", "ipfs"}
DownloadArgs ==
    [Type : DatastoreTypes,
     redirectDownloads : {Unset, "true", "false", "1", "yes"},
     publicBase : {Unset, "https://cdn.example/", "https://cdn.example"},
     location : {"ab/cd1234", "k"},
     filename : {"ab/cd1234", "cat.png"}]

\* lines 188-195 of the datastore facade; an unset option reads as ""
ShouldRedirectDownload(a) ==
    IF a.Type # "s3" THEN FALSE
    ELSE ParseBool(IF a.redirectDownloads = Unset THEN "" ELSE a.redirectDownloads)

\* lines 116-133 of the datastore facade: an error for other types than
\* s3, "%s/%s" of the publicPrefix option and the file name when the option
\* is set, else the pre-signed URL of the s3 client
GetDownloadURL(a) ==
    IF a.Type # "s3" THEN [err |-> "ErrS3Required", url |-> ""]
    ELSE IF a.publicBase # Unset
    THEN [err |-> "", url |-> a.publicBase \o "/" \o a.filename]
    ELSE [err |-> "", url |-> "presigned:" \o a.location]

\* datastores.DownloadOrRedirect: other types than s3 are streamed; an s3
\* datastore with a publicBaseUrl redirects to "%s%s" of it and the name
\* of the object
DownloadOrRedirect(a) ==
    IF a.Type # "s3" THEN [redirect |-> FALSE, url |-> ""]
    ELSE IF a.publicBase # Unset /\ a.publicBase # ""
    THEN [redirect |-> TRUE, url |-> a.publicBase \o a.location]
    ELSE [redirect |-> FALSE, url |-> ""]

NoDecision == [made |-> FALSE, redirect |-> FALSE, url |-> "", err |-> "",
               direct |-> [redirect |-> FALSE, url |-> ""]]

RedirIdle ==
    /\ dlArgs = [Type |-> "file", redirectDownloads |-> Unset,
                 publicBase |-> Unset, location |-> "k", filename |-> "cat.png"]
    /\ dlOut = NoDecision

RedirInit ==
    /\ dlArgs \in DownloadArgs
    /\ dlOut = NoDecision

\* DownloadMedia, lines 87-96, for a request that allows a redirect: it
\* redirects to the URL of the media when ShouldRedirectDownload says so
DownloadMedia_Decide ==
    /\ ~dlOut.made
    /\ LET should == ShouldRedirectDownload(dlArgs)
           got == GetDownloadURL(dlArgs)
       IN dlOut' = [made |-> TRUE,
                    redirect |-> should /\ got.err = "",
                    url |-> IF should THEN got.url ELSE "",
                    err |-> IF should THEN got.err ELSE "",
                    direct |-> DownloadOrRedirect(dlArgs)]
    /\ UNCHANGED dlArgs

(***************************************************************************)
(* UploadMedia (api/r0/upload.go).  What IsRequestTooLarge, IsRequestToo-  *)
(* Small and IsUserWithinQuota answer for a request is part of the input.  *)
(***************************************************************************)
MaxBody == 2
QuotaAnswers == {"within", "exceeded", "error"}
UploadMediaArgs ==
    [server : {"", ThisHost, "x"}, tooLarge : BOOLEAN, tooSmall : BOOLEAN,
     quota : QuotaAnswers, body : 0..MaxBody]
InitUm == [pc |-> "idle", unread |-> 0, checks |-> <<>>, drained |-> FALSE,
           pipeline |-> 0, persisted |-> 0, result |-> "none"]

UmIdle ==
    /\ umArgs = [server |-> "", tooLarge |-> FALSE, tooSmall |-> FALSE,
                 quota |-> "within", body |-> 0]
    /\ um = InitUm

UmInit ==
    /\ umArgs \in UploadMediaArgs
    /\ um = [InitUm EXCEPT !.unread = umArgs.body]

\* lines 204, 209, 215, 221: io.Copy(ioutil.Discard, r.Body), then the
\* return of the outcome
Reject(checks, result) ==
    [um EXCEPT !.pc = "returned", !.checks = checks, !.unread = 0,
               !.drained = TRUE, !.result = result]

\* lines 203-223 with the quota looked at before the size of the request
UploadMedia_Check_QuotaFirst ==
    /\ um.pc = "idle"
    /\ um' =
          IF umArgs.server # ""
                /\ (~IsServerOurs(umArgs.server) \/ umArgs.server # ThisHost)
          THEN [um EXCEPT !.pc = "returned", !.unread = 0,
                          !.result = "not found"]
          ELSE IF umArgs.quota = "error"
          THEN Reject(<<"quota">>, "internal error")
          ELSE IF umArgs.quota = "exceeded"
          THEN Reject(<<"quota">>, "quota exceeded")
          ELSE IF umArgs.tooLarge
          THEN Reject(<<"quota", "large">>, "too large")
          ELSE IF umArgs.tooSmall
          THEN Reject(<<"quota", "large", "small">>, "too small")
          ELSE [um EXCEPT !.pc = "uploading",
                          !.checks = <<"quota", "large", "small">>]
    /\ UNCHANGED umArgs

\* lines 179-223: the check of the server, which returns not-found and
\* leaves the body to the deferred DumpAndCloseStream of line 180; then
\* the checks of the size and of the quota
UploadMedia_Check ==
    /\ um.pc = "idle"
    /\ um' =
          IF umArgs.server # ""
                /\ (~IsServerOurs(umArgs.server) \/ umArgs.server # ThisHost)
          THEN [um EXCEPT !.pc = "returned", !.unread = 0,
                          !.result = "not found"]
          ELSE IF umArgs.tooLarge
          THEN Reject(<<"large">>, "too large")
          ELSE IF umArgs.tooSmall
          THEN Reject(<<"large", "small">>, "too small")
          ELSE IF umArgs.quota = "error"
          THEN Reject(<<"large", "small", "quota">>, "internal error")
          ELSE IF umArgs.quota = "exceeded"
          THEN Reject(<<"large", "small", "quota">>, "quota exceeded")
          ELSE [um EXCEPT !.pc = "uploading",
                          !.checks = <<"large", "small", "quota">>]
    /\ UNCHANGED umArgs

\* what upload_controller.UploadMedia and the calls after it may answer
PipelineOutcomes ==
    {"stored", "quarantined", "cannot overwrite", "not found", "failed",
     "reference failed"}

\* lines 225-266: the upload pipeline is given the body; its errors are
\* turned into outcomes after the rest of the body has been read
UploadMedia_Upload(outcome, taken) ==
    /\ um.pc = "uploading"
    /\ outcome \in {"stored", "reference failed"} => taken = um.unread
    /\ um' = [um EXCEPT
          !.pc = "returned",
          !.pipeline = @ + 1,
          !.unread = 0,
          !.persisted = IF outcome \in {"stored", "reference failed"}
                        THEN taken ELSE 0,
          !.drained = outcome \notin {"stored", "reference failed"},
          !.result = CASE outcome = "stored" -> "uploaded"
                       [] outcome = "quarantined" -> "bad request"
                       [] outcome = "cannot overwrite" -> "cannot overwrite"
                       [] outcome = "not found" -> "not found"
                       [] outcome = "failed" -> "service unavailable"
                       [] outcome = "reference failed" -> "internal error"]
    /\ UNCHANGED umArgs

(***************************************************************************)
(* handleDownloadError (api/r0/download.go): the outcome DownloadMedia     *)
(* gives for an error of the download controller.                          *)
(***************************************************************************)
DownloadErrors ==
    {"ErrMediaNotFound", "ErrMediaQuarantined", "ErrMediaTooLarge",
     "ErrNotYetUploaded", "other"}

handleDownloadError(err) ==
    CASE err \in {"ErrMediaNotFound", "ErrMediaQuarantined"} -> "not found"
      [] err = "ErrMediaTooLarge" -> "too large"
      [] err = "ErrNotYetUploaded" -> "not yet uploaded"
      [] OTHER -> "internal error"

(***************************************************************************)
(* DatastoreRef (storage/datastore): the facade over the backends.  What   *)
(* a backend answers when it is called is part of the input of a call.     *)
(***************************************************************************)
RefTypes == DatastoreTypes \cup {"other"}
RefArgs ==
    [Type : RefTypes,
     redirectDownloads : {Unset, "true", "false", "yes"},
     redirectUploads : {Unset, "true", "false", "yes"},
     publicBase : {Unset, "https://cdn.example"},
     location : {"k"},
     filename : {"cat.png"},
     conf : Confs]

\* errors.New("download URLs unsupported for non-s3 datastores")
ErrS3Required == "ErrS3Required"

\* the answer of a call: its error ("" for nil), the URL or the flag it
\* returns, and the calls it made on the way
Answer(op, err, url, flag, calls) ==
    [op |-> op, err |-> err, url |-> url, flag |-> flag, calls |-> calls]
NoAnswer == Answer("none", "", "", FALSE, <<>>)

RefIdle ==
    /\ refArgs = [Type |-> "file", redirectDownloads |-> Unset,
                  redirectUploads |-> Unset, publicBase |-> Unset,
                  location |-> "k", filename |-> "cat.png", conf |-> "complete"]
    /\ refObject = FALSE
    /\ ref = NoAnswer

RefInit ==
    /\ refArgs \in RefArgs
    /\ refObject \in BOOLEAN
    /\ ref = NoAnswer

\* ds_s3.GetOrCreateS3Datastore(d.DatastoreId, d.config) as the facade sees
\* it: an error when the configuration lacks an option
S3Error == IF refArgs.conf = "incomplete" THEN "missing options" ELSE ""

\* the call of a backend function: its error is the call's error
Backend(op, fn, ok, url) ==
    Answer(op, IF ok THEN "" ELSE "backend error", IF ok THEN url ELSE "",
           FALSE, <<fn>>)

\* the s3 branch of a call: the instance is looked up, then asked
ViaS3(op, fn, ok, url) ==
    IF S3Error # ""
    THEN Answer(op, S3Error, "", FALSE, <<"GetOrCreateS3Datastore">>)
    ELSE [Backend(op, fn, ok, url) EXCEPT
             !.calls = <<"GetOrCreateS3Datastore">> \o @]

\* lines 45-62
DatastoreRef_GetUploadURL(ok) ==
    /\ ref' = IF refArgs.Type # "s3"
              THEN Answer("GetUploadURL", ErrS3Required, "", FALSE, <<>>)
              ELSE ViaS3("GetUploadURL", "s3.GetUploadURL", ok, "presigned-put:key")
    /\ UNCHANGED <<refArgs, refObject>>

\* DatastoreRef_DeleteObject with the ipfs branch removing the object
DatastoreRef_DeleteObject_IpfsRemoves(ok) ==
    /\ ref' = CASE refArgs.Type = "file" ->
                     Backend("DeleteObject", "ds_file.DeletePersistedFile", ok, "")
                [] refArgs.Type = "s3" ->
                     ViaS3("DeleteObject", "s3.DeleteObject", ok, "")
                [] refArgs.Type = "ipfs" ->
                     Answer("DeleteObject", "", "", FALSE, <<>>)
                [] OTHER ->
                     Answer("DeleteObject", "unknown datastore type", "", FALSE, <<>>)
    /\ refObject' = IF refArgs.Type = "ipfs" \/ (ref'.err = "" /\ ref'.calls # <<>>)
                    THEN FALSE ELSE refObject
    /\ UNCHANGED refArgs

\* lines 82-98
DatastoreRef_DeleteObject(ok) ==
    /\ ref' = CASE refArgs.Type = "file" ->
                     Backend("DeleteObject", "ds_file.DeletePersistedFile", ok, "")
                [] refArgs.Type = "s3" ->
                     ViaS3("DeleteObject", "s3.DeleteObject", ok, "")
                [] refArgs.Type = "ipfs" ->
                     Answer("DeleteObject", "", "", FALSE, <<>>)
                [] OTHER ->
                     Answer("DeleteObject", "unknown datastore type", "", FALSE, <<>>)
    /\ refObject' = IF ref'.err = "" /\ ref'.calls # <<>> THEN FALSE ELSE refObject
    /\ UNCHANGED refArgs

\* lines 116-133
DatastoreRef_GetDownloadURL(ok) ==
    /\ ref' = IF refArgs.Type # "s3"
              THEN Answer("GetDownloadURL", GetDownloadURL(refArgs).err, "", FALSE, <<>>)
              ELSE IF S3Error # ""
              THEN Answer("GetDownloadURL", S3Error, "", FALSE,
                          <<"GetOrCreateS3Datastore">>)
              ELSE IF refArgs.publicBase # Unset
              THEN Answer("GetDownloadURL", "", GetDownloadURL(refArgs).url, FALSE,
                          <<"GetOrCreateS3Datastore">>)
              ELSE ViaS3("GetDownloadURL", "s3.GetDownloadURL", ok,
                         GetDownloadURL(refArgs).url)
    /\ UNCHANGED <<refArgs, refObject>>

\* lines 157-167
DatastoreRef_ObjectInfo(ok) ==
    /\ ref' = IF refArgs.Type # "s3"
              THEN Answer("ObjectInfo", ErrS3Required, "", FALSE, <<>>)
              ELSE ViaS3("ObjectInfo", "s3.GetObjectInfo", ok /\ refObject, "")
    /\ UNCHANGED <<refArgs, refObject>>

\* lines 169-186
DatastoreRef_OverwriteObject(ok) ==
    /\ ref' = CASE refArgs.Type = "file" ->
                     Backend("OverwriteObject", "ds_file.PersistFileAtLocation", ok, "")
                [] refArgs.Type = "s3" ->
                     ViaS3("OverwriteObject", "s3.OverwriteObject", ok, "")
                [] refArgs.Type = "ipfs" ->
                     Answer("OverwriteObject", "unsupported operation", "", FALSE, <<>>)
                [] OTHER ->
                     Answer("OverwriteObject", "unknown datastore type", "", FALSE, <<>>)
    /\ refObject' = IF ref'.err = "" THEN TRUE ELSE refObject
    /\ UNCHANGED refArgs

\* lines 188-195
DatastoreRef_ShouldRedirectDownload ==
    /\ ref' = Answer("ShouldRedirectDownload", "", "",
                     ShouldRedirectDownload(refArgs), <<>>)
    /\ UNCHANGED <<refArgs, refObject>>

\* lines 197-204; an unset option reads as ""
ShouldRedirectUpload(a) ==
    IF a.Type # "s3" THEN FALSE
    ELSE ParseBool(IF a.redirectUploads = Unset THEN "" ELSE a.redirectUploads)

DatastoreRef_ShouldRedirectUpload ==
    /\ ref' = Answer("ShouldRedirectUpload", "", "",
                     ShouldRedirectUpload(refArgs), <<>>)
    /\ UNCHANGED <<refArgs, refObject>>

(***************************************************************************)
(* Goroutines and channels have no names in the program: the model numbers *)
(* handles in the order in which their channels are made, and callers in   *)
(* the order of their calls.                                               *)
(***************************************************************************)
NextHandle(h) == \A g \in Handles : g < h => chans[g] # "none"
NextNotifier(n) == \A m \in Callers : m < n => notif[m].pc # "idle"
NextCompleter(p) == \A m \in Callers : m < p => uc[m].pc # "idle"

LibIdle == UpIdle /\ StoreInit /\ RedirIdle /\ UmIdle /\ RefIdle

\* no UploadComplete request is made
UcIdle ==
    /\ db = NoMedia
    /\ object = [Size |-> 0, ContentType |-> ""]
    /\ uc = [p \in Callers |-> InitUc]
    /\ ucHist = InitUcHist

(***************************************************************************)
(* The registry on its own: any goroutine may start, wait, cancel, notify. *)
(***************************************************************************)
Init ==
    /\ RegInit
    /\ db = NoMedia
    /\ object = [Size |-> 0, ContentType |-> ""]
    /\ uc = [p \in Callers |-> InitUc]
    /\ ucHist = InitUcHist
    /\ LibIdle

Next ==
    \/ \E h \in Handles, pair \in WaitPairs :
          NextHandle(h) /\ StartWaitForUpload(h, pair) /\ UNCHANGED <<ucVars, libVars>>
    \/ \E h \in Handles : CancelWaitForUpload(h) /\ UNCHANGED <<ucVars, libVars>>
    \/ \E h \in Handles : WaitForUpload_Enter(h) /\ UNCHANGED <<ucVars, libVars>>
    \/ \E h \in Handles : WaitForUpload_RecvClosed(h) /\ UNCHANGED <<ucVars, libVars>>
    \/ \E h \in Handles : WaitForUpload_Timeout(h) /\ UNCHANGED <<ucVars, libVars>>
    \/ \E h \in Handles : WaitForUpload_Defer(h) /\ UNCHANGED <<ucVars, libVars>>
    \/ \E n \in Callers, pair \in NotifyPairs :
          NextNotifier(n) /\ NotifyUpload_Lock(n, pair) /\ UNCHANGED <<ucVars, libVars>>
    \/ \E n \in Callers, h \in Handles :
          NotifyUpload_Send(n, h) /\ UNCHANGED <<ucVars, libVars>>
    \/ \E n \in Callers : NotifyUpload_Unlock(n) /\ UNCHANGED <<ucVars, libVars>>

Spec == Init /\ [][Next]_vars

(***************************************************************************)
(* The completion coordinator with its readers: downloads that wait for    *)
(* the media id RecPair, and UploadComplete requests.                      *)
(***************************************************************************)
UcSpecInit == RegInit /\ UcInit /\ LibIdle

UcNext ==
    \/ \E h \in Handles :
          NextHandle(h) /\ StartWaitForUpload(h, RecPair) /\ UNCHANGED <<ucVars, libVars>>
    \/ \E h \in Handles : WaitForUpload_Enter(h) /\ UNCHANGED <<ucVars, libVars>>
    \/ \E h \in Handles : WaitForUpload_Timeout(h) /\ UNCHANGED <<ucVars, libVars>>
    \/ \E h \in Handles : WaitForUpload_Defer(h) /\ UNCHANGED <<ucVars, libVars>>
    \/ \E n \in Callers, h \in Handles :
          NotifyUpload_Send(n, h) /\ UNCHANGED <<ucVars, libVars>>
    \/ \E p \in Callers, req \in Requests, statOk \in BOOLEAN :
          NextCompleter(p) /\ UploadComplete_Get(p, req, statOk)
             /\ UNCHANGED libVars
    \/ \E p \in Callers, ok \in BOOLEAN :
          UploadComplete_Update(p, ok) /\ UNCHANGED libVars
    \/ \E p \in Callers : UploadComplete_Notify(p) /\ UNCHANGED libVars
    \/ \E p \in Callers : UploadComplete_Return(p) /\ UNCHANGED libVars
    \/ \E p \in Callers, outcome \in DigestOutcomes :
          UploadComplete_Digest(p, outcome) /\ UNCHANGED libVars

UcSpec == UcSpecInit /\ [][UcNext]_vars

(***************************************************************************)
(* One call of s3Datastore.UploadFile with its two goroutines, the temp    *)
(* directory and the bucket.                                               *)
(***************************************************************************)
UpSpecInit ==
    /\ RegInit
    /\ db = NoMedia
    /\ object = [Size |-> 0, ContentType |-> ""]
    /\ uc = [p \in Callers |-> InitUc]
    /\ ucHist = InitUcHist
    /\ UpInit
    /\ StoreInit /\ RedirIdle /\ UmIdle /\ RefIdle

UpNext ==
    \/ \E keyOk \in BOOLEAN :
          UploadFile_Start(keyOk) /\ UNCHANGED notUp
    \/ Hasher_Read /\ UNCHANGED notUp
    \/ Hasher_Done /\ UNCHANGED notUp
    \/ Hasher_Close /\ UNCHANGED notUp
    \/ \E tempOk \in BOOLEAN :
          Uploader_Begin(tempOk) /\ UNCHANGED notUp
    \/ Uploader_Discard /\ UNCHANGED notUp
    \/ \E writeOk \in BOOLEAN :
          Uploader_Copy(writeOk) /\ UNCHANGED notUp
    \/ \E openOk \in BOOLEAN :
          Uploader_Reopen(openOk) /\ UNCHANGED notUp
    \/ Uploader_PutFromPipe /\ UNCHANGED notUp
    \/ Uploader_PutFromTemp /\ UNCHANGED notUp
    \/ \E stored \in BOOLEAN :
          Uploader_PutError(stored) /\ UNCHANGED notUp
    \/ Uploader_Done /\ UNCHANGED notUp
    \/ Uploader_Deferred /\ UNCHANGED notUp
    \/ UploadFile_Result /\ UNCHANGED notUp

UpSpec == UpSpecInit /\ [][UpNext]_vars

(***************************************************************************)
(* Concurrent callers of GetOrCreateS3Datastore.                           *)
(***************************************************************************)
StoreSpecInit ==
    /\ RegInit
    /\ db = NoMedia
    /\ object = [Size |-> 0, ContentType |-> ""]
    /\ uc = [p \in Callers |-> InitUc]
    /\ ucHist = InitUcHist
    /\ UpIdle
    /\ StoreInit /\ RedirIdle /\ UmIdle /\ RefIdle

StoreNext ==
    \/ \E c \in Callers, dsId \in DsIds, conf \in Confs :
          /\ NextGetter(c)
          /\ GetOrCreateS3Datastore_Lookup(c, dsId, conf)
          /\ UNCHANGED notStore
    \/ \E c \in Callers, clientOk \in BOOLEAN :
          /\ GetOrCreateS3Datastore_Construct(c, clientOk)
          /\ UNCHANGED notStore
    \/ \E c \in Callers :
          GetOrCreateS3Datastore_Store(c) /\ UNCHANGED notStore
    \/ ConcurrentMapWrites /\ UNCHANGED notStore

StoreSpec == StoreSpecInit /\ [][StoreNext]_vars

(***************************************************************************)
(* The redirect decisions over the configurations of a datastore.          *)
(***************************************************************************)
RedirSpecInit ==
    RegInit /\ UcIdle /\ UpIdle /\ StoreInit /\ UmIdle /\ RefIdle /\ RedirInit

RedirNext == DownloadMedia_Decide /\ UNCHANGED notRedir

RedirSpec == RedirSpecInit /\ [][RedirNext]_vars

(***************************************************************************)
(* One UploadMedia request.                                                *)
(***************************************************************************)
UmSpecInit ==
    RegInit /\ UcIdle /\ UpIdle /\ StoreInit /\ RedirIdle /\ RefIdle /\ UmInit

UmNext ==
    \/ UploadMedia_Check /\ UNCHANGED notUm
    \/ \E outcome \in PipelineOutcomes, taken \in 0..MaxBody :
          /\ taken <= um.unread
          /\ UploadMedia_Upload(outcome, taken)
          /\ UNCHANGED notUm

UmSpec == UmSpecInit /\ [][UmNext]_vars

(***************************************************************************)
(* Calls of a DatastoreRef, one after the other, over the types and the    *)
(* options a datastore may be configured with.                             *)
(***************************************************************************)
RefSpecInit ==
    RegInit /\ UcIdle /\ UpIdle /\ StoreInit /\ RedirIdle /\ UmIdle /\ RefInit

RefNext ==
    \/ \E ok \in BOOLEAN : DatastoreRef_GetUploadURL(ok) /\ UNCHANGED notRef
    \/ \E ok \in BOOLEAN : DatastoreRef_DeleteObject(ok) /\ UNCHANGED notRef
    \/ \E ok \in BOOLEAN : DatastoreRef_GetDownloadURL(ok) /\ UNCHANGED notRef
    \/ \E ok \in BOOLEAN : DatastoreRef_ObjectInfo(ok) /\ UNCHANGED notRef
    \/ \E ok \in BOOLEAN : DatastoreRef_OverwriteObject(ok) /\ UNCHANGED notRef
    \/ DatastoreRef_ShouldRedirectDownload /\ UNCHANGED notRef
    \/ DatastoreRef_ShouldRedirectUpload /\ UNCHANGED notRef

RefSpec == RefSpecInit /\ [][RefNext]_vars

(***************************************************************************)
(* UploadFile under the scheduling Go guarantees: a goroutine that can     *)
(* take a step takes it; whether a write or the backend fails is not       *)
(* constrained.                                                            *)
(***************************************************************************)
UpFairness ==
    /\ WF_upVars(Hasher_Read)
    /\ WF_upVars(Hasher_Done)
    /\ WF_upVars(Hasher_Close)
    /\ WF_upVars(\E tempOk \in BOOLEAN : Uploader_Begin(tempOk))
    /\ WF_upVars(Uploader_Discard)
    /\ WF_upVars(\E writeOk \in BOOLEAN : Uploader_Copy(writeOk))
    /\ WF_upVars(\E openOk \in BOOLEAN : Uploader_Reopen(openOk))
    /\ WF_upVars(Uploader_PutFromPipe \/ \E stored \in BOOLEAN : Uploader_PutError(stored))
    /\ WF_upVars(Uploader_PutFromTemp \/ \E stored \in BOOLEAN : Uploader_PutError(stored))
    /\ WF_upVars(Uploader_Done)
    /\ WF_upVars(Uploader_Deferred)
    /\ WF_upVars(UploadFile_Result)

UpFairSpec == UpSpecInit /\ [][UpNext]_vars /\ UpFairness

(***************************************************************************)
(* The registry under the scheduling Go guarantees to calls that are       *)
(* already running: a runnable goroutine runs, a timer fires, a free mutex *)
(* is acquired.  Whether a caller makes a new call is not constrained.     *)
(***************************************************************************)
RegFairness ==
    /\ \A h \in Handles : WF_regVars(WaitForUpload_Enter(h))
    /\ \A h \in Handles : WF_regVars(WaitForUpload_RecvClosed(h))
    /\ \A h \in Handles : WF_regVars(WaitForUpload_Timeout(h))
    /\ \A h \in Handles : WF_regVars(WaitForUpload_Defer(h))
    /\ \A n \in Callers, h \in Handles : WF_regVars(NotifyUpload_Send(n, h))
    /\ \A n \in Callers : WF_regVars(NotifyUpload_Unlock(n))

FairSpec == Init /\ [][Next]_vars /\ RegFairness

TypeOK ==
    /\ waiterLock \in {Unlocked} \cup ({"wait"} \X Handles) \cup ({"notify"} \X Callers)
    /\ \A k \in DOMAIN waiters : waiters[k] \in SetIds
    /\ \A h \in Handles : chans[h] \in {"none", "open", "closed"}

\* a closed channel is never a member of a set the map still refers to
NoClosedInMap ==
    \A k \in DOMAIN waiters : \A h \in sets[waiters[k]] : chans[h] = "open"

\* the handles registered under a pair's key in the waiters map
Registered(pair) ==
    IF Key(pair) \in DOMAIN waiters THEN sets[waiters[Key(pair)]] ELSE {}

(***************************************************************************)
(* C1: one NotifyUpload signals every handle registered under its key when *)
(* it took the lock: the registered set cannot change while the notify     *)
(* holds the lock, a handle receives from a notify only if it was in that  *)
(* set and has the notify's key, and when the notify returns every handle  *)
(* of the set has received from it, so its WaitForUpload returns true.     *)
(***************************************************************************)
C1_NotifyWakesAllRegistered ==
    [][\A n \in Callers :
          /\ notif[n].pc = "sending"
                => /\ Registered(notif[n].pair) = notif[n].snap
                   /\ \A h \in Handles :
                         hist'[h].recv = <<"notify", n>> /\ hist[h].recv = NoRecv
                            => /\ h \in notif[n].snap
                               /\ Key(owner[h].pair) = Key(notif[n].pair)
                               /\ WaitResult(h)'
          /\ notif[n].pc = "sending" /\ notif'[n].pc = "done"
                => \A h \in Registered(notif[n].pair) :
                      hist[h].recv = <<"notify", n>> /\ WaitResult(h)
          /\ notif[n].pc # "sending"
                => \A h \in Handles : hist'[h].recv # <<"notify", n>>
                                         \/ hist[h].recv = <<"notify", n>>
      ]_vars

\* a notify has returned after waking two waiters; a handle registered later
C1_Witness ==
    \E n \in Callers :
        /\ notif[n].pc = "done"
        /\ Cardinality({h \in Handles : hist[h].recv = <<"notify", n>>}) >= 2

(***************************************************************************)
(* C2: every WaitForUpload that has reached its select eventually returns  *)
(* (stated for runs in which CancelWaitForUpload is never called).         *)
(***************************************************************************)
C2_WaitAlwaysReturns ==
    \A h \in Handles :
        (owner[h].pc = "select")
            ~> (owner[h].pc = "done" \/ cancels > 0)

(***************************************************************************)
(* C3: every NotifyUpload that holds the lock eventually finishes its      *)
(* sends and releases the lock.                                            *)
(***************************************************************************)
C3_NotifyAlwaysReturns ==
    \A n \in Callers : (notif[n].pc = "sending") ~> (notif[n].pc = "done")

(***************************************************************************)
(* C5: no handle's channel is closed more than once.                       *)
(***************************************************************************)
C5_ClosedAtMostOnce == \A h \in Handles : hist[h].closes <= 1

(***************************************************************************)
(* C6: CancelWaitForUpload on a handle that is already gone (its channel   *)
(* was removed and closed by a finished wait or an earlier cancel) closes  *)
(* nothing and leaves the registry as it was.                              *)
(***************************************************************************)
C6_CancelOfGoneHandleIsNoOp ==
    [][\A h \in Handles :
          CancelWaitForUpload(h) /\ chans[h] = "closed"
             => UNCHANGED <<waiters, sets, chans, hist, waiterLock>>
      ]_vars

Quiescent ==
    /\ waiterLock = Unlocked \/ \E h \in Handles : owner[h].pc = "panicked"
    /\ \A h \in Handles : owner[h].pc \in {"idle", "started", "done", "panicked"}
    /\ \A n \in Callers : notif[n].pc \in {"idle", "done"}

\* WaitForUpload or CancelWaitForUpload has been called on every handle made
EveryHandleWaitedOrCancelled ==
    \A h \in Handles :
        chans[h] # "none"
            => owner[h].pc \in {"done", "panicked"} \/ chans[h] = "closed"

(***************************************************************************)
(* C4: no leaked entries.  A key of the map never refers to an empty set   *)
(* once the operation that emptied it is over, and when every handle made  *)
(* has been waited on or cancelled the map is empty.                       *)
(***************************************************************************)
C4_NoLeakedEntries ==
    Quiescent /\ EveryHandleWaitedOrCancelled => DOMAIN waiters = {}

\* the row of the media id shows a finished upload
RowFinalized == db.exists /\ db.SizeBytes > 0

(***************************************************************************)
(* C8: UploadComplete notifies only after its update of the row, and a     *)
(* waiter woken by that notify finds the row finalized (sizeBytes > 0)     *)
(* when it reads it.                                                       *)
(***************************************************************************)
C8_WokenWaiterSeesFinalized ==
    /\ ucHist.notifies <= ucHist.sizeWrites
    /\ \A h \in Handles : hist[h].recv[1] = "notify" => RowFinalized

(***************************************************************************)
(* C9: for one reserved row (of a non-empty object) the size and content   *)
(* type are written once, the digest at most once and NotifyUpload is      *)
(* called once, however many UploadComplete requests arrive.               *)
(***************************************************************************)
C9_CompletedOnce ==
    object.Size > 0
        => /\ ucHist.sizeWrites <= 1
           /\ ucHist.hashWrites <= 1
           /\ ucHist.notifies <= 1

(***************************************************************************)
(* C10: UploadComplete for the media id of a finalized row returns success *)
(* at once and changes nothing: no metadata lookup, no update, no notify,  *)
(* no digest goroutine, then or later.                                     *)
(***************************************************************************)
C10_CompleteOnFinalizedIsNoOp ==
    /\ [][\A p \in Callers, statOk \in BOOLEAN :
             UploadComplete_Get(p, RecPair, statOk) /\ RowFinalized
                => /\ uc'[p] = [InitUc EXCEPT !.pc = "returned", !.result = "noop"]
                   /\ UNCHANGED <<db, ucHist, regVars>>
         ]_vars
    /\ [](\A p \in Callers :
             uc[p].result = "noop"
                => uc[p].pc = "returned" /\ uc[p].bg = "none"
                       /\ notif[p].pc = "idle")

\* a second request found the row finalized by the first one
C10_Witness ==
    \E p, q \in Callers :
        /\ uc[p].result = "ok"
        /\ uc[q].result = "noop"
        /\ RowFinalized

\* the outcomes of UploadComplete that report a failure
Failures == {"notfound", "error"}

(***************************************************************************)
(* C11: UploadComplete answers not-found when the row is absent or has no  *)
(* location and an internal error when the metadata lookup fails; a call   *)
(* that ends in either way has left the row as it was, has not called      *)
(* NotifyUpload and has started no digest goroutine.                       *)
(***************************************************************************)
C11_FailuresChangeNothing ==
    /\ [][\A p \in Callers, statOk \in BOOLEAN :
             UploadComplete_Get(p, RecPair, statOk)
                => /\ (~db.exists \/ db.Location = "")
                          => uc'[p].result = "notfound"
                   /\ (db.exists /\ db.Location # "" /\ db.SizeBytes = 0
                          /\ ~statOk) => uc'[p].result = "error"
         ]_vars
    /\ [][\A p \in Callers :
             uc[p].pc # "returned" /\ uc'[p].pc = "returned"
                 /\ uc'[p].result \in Failures
                => /\ UNCHANGED <<db, ucHist, regVars>>
                   /\ uc'[p].bg = "none"
         ]_vars
    /\ [](\A p \in Callers :
             uc[p].result \in Failures
                => uc[p].bg = "none" /\ notif[p].pc = "idle")

\* one request was answered not-found and another with an internal error
C11_Witness ==
    \E p, q \in Callers :
        /\ uc[p].result = "notfound"
        /\ uc[q].result = "error"
        /\ db.exists /\ db.Location # ""

\* UploadFile has returned a descriptor
Described == upMain.pc = "returned" /\ upMain.result.err = ""

(***************************************************************************)
(* C12: when UploadFile returns a descriptor for a stream of L bytes, its  *)
(* SizeBytes is L, its digest is the digest of those L bytes, and the      *)
(* bytes of the object are the bytes that were hashed.                     *)
(***************************************************************************)
C12_DescriptorMatchesStream ==
    Described
        => /\ upMain.result.obj.SizeBytes = Len(upArgs.bytes)
           /\ upMain.result.obj.Sha256Hash = Sha256(upArgs.bytes)
           /\ bucket.exists /\ bucket.bytes = upArgs.bytes
           /\ upMain.result.obj.Sha256Hash = Sha256(bucket.bytes)

\* UploadFile has returned after its two goroutines ran
Reported == upMain.pc = "returned" /\ upMain.result.err # "key"

C14_FailedPutLeavesNoObject ==
    upMain.pc = "returned" /\ upMain.result.err = "upload" => ~bucket.exists

(***************************************************************************)
(* C15: for the same bytes, a call with an unknown length and a tempPath   *)
(* returns the SizeBytes and digest a call with the true length returns,   *)
(* and its put is given the number of bytes of the stream.                 *)
(***************************************************************************)
C15_BufferedEqualsKnownLength ==
    Described
        => /\ upArgs.expectedLength > 0
                 => /\ upMain.result.obj.SizeBytes = Len(upArgs.bytes)
                    /\ upMain.result.obj.Sha256Hash = Sha256(upArgs.bytes)
           /\ upArgs.expectedLength <= 0 /\ upArgs.tempPath # ""
                 => /\ upMain.result.obj.SizeBytes = Len(upArgs.bytes)
                    /\ upMain.result.obj.Sha256Hash = Sha256(upArgs.bytes)
                    /\ uploader.expectedLength = Len(upArgs.bytes)

(***************************************************************************)
(* C16: once UploadFile has returned, no temp file it made exists.         *)
(***************************************************************************)
C16_NoTempFileAfterReturn ==
    upMain.pc = "returned" => ~tempFile.exists

\* what UploadFile reads at lines 241-252
Results == <<hasher.hash, hasher.hashErr, uploader.sizeBytes, uploader.uploadErr>>

C18_OneInstancePerId ==
    /\ \A d \in DsIds : made[d] <= 1
    /\ \A c, e \in Callers :
          getter[c].pc = "returned" /\ getter[e].pc = "returned"
              /\ getter[c].dsId = getter[e].dsId
             => getter[c].ret = getter[e].ret

(***************************************************************************)
(* C19: a file datastore never redirects a download; an s3 datastore whose *)
(* redirectDownloads is not true never redirects; an s3 datastore with     *)
(* redirectDownloads true and a public base URL redirects to the base URL  *)
(* followed by the object's location, nothing between them.                *)
(***************************************************************************)
C19_RedirectDecisionTable ==
    dlOut.made
        => /\ dlArgs.Type = "file"
                 => ~dlOut.redirect /\ ~dlOut.direct.redirect
           /\ dlArgs.Type = "s3" /\ dlArgs.redirectDownloads \in {Unset, "false"}
                 => ~dlOut.redirect
           /\ dlArgs.Type = "s3" /\ dlArgs.redirectDownloads = "true"
                 /\ dlArgs.publicBase # Unset
                 => /\ dlOut.redirect
                    /\ dlOut.url = dlArgs.publicBase \o dlArgs.location
                    /\ dlOut.direct.url = dlArgs.publicBase \o dlArgs.location

\* the request passes the check of the server name
ForThisServer == umArgs.server \in {"", ThisHost}

(***************************************************************************)
(* C20: UploadMedia checks too-large, then too-small, then the quota; a    *)
(* request rejected by one of them (or by an error of the quota check)     *)
(* gets that outcome after its whole body was read, and the upload         *)
(* pipeline was never called for it: nothing of it is stored.              *)
(***************************************************************************)
C20_RejectedBeforePipeline ==
    um.pc = "returned" /\ ForThisServer
        => /\ \E n \in 0..3 : um.checks = SubSeq(<<"large", "small", "quota">>, 1, n)
           /\ umArgs.tooLarge => um.result = "too large"
           /\ ~umArgs.tooLarge /\ umArgs.tooSmall => um.result = "too small"
           /\ ~umArgs.tooLarge /\ ~umArgs.tooSmall /\ umArgs.quota = "error"
                 => um.result = "internal error"
           /\ ~umArgs.tooLarge /\ ~umArgs.tooSmall /\ umArgs.quota = "exceeded"
                 => um.result = "quota exceeded"
           /\ umArgs.tooLarge \/ umArgs.tooSmall \/ umArgs.quota # "within"
                 => /\ um.drained /\ um.unread = 0
                    /\ um.pipeline = 0 /\ um.persisted = 0

\* a request with a body that is too large, too small and over quota at
\* once has been rejected
C20_Witness ==
    /\ um.pc = "returned" /\ ForThisServer
    /\ umArgs.tooLarge /\ umArgs.tooSmall /\ umArgs.quota = "exceeded"
    /\ umArgs.body = MaxBody
    /\ um.result = "too large"

\* the digest goroutine of caller p has been started
DigestStarted(p) == uc[p].bg # "none"

\* a step of p's digest goroutine that ends in one of its failures
DigestFails(p) ==
    \E outcome \in DigestOutcomes \ {"ok"} : UploadComplete_Digest(p, outcome)

\* C21: the digest goroutine of an UploadComplete request exists only once
\* the request's NotifyUpload has returned and the request has its success
\* response, and a failure in the goroutine changes no request's outcome,
\* no row and nothing in the registry.
C21_DigestNeverBeforeNotify ==
    /\ [](\A p \in Callers :
             DigestStarted(p) => /\ uc[p].pc = "returned"
                                 /\ uc[p].result = "ok"
                                 /\ notif[p].pc = "done")
    /\ [][\A p \in Callers :
             DigestFails(p) =>
                /\ UNCHANGED <<db, ucHist, regVars>>
                /\ \A q \in Callers : /\ uc'[q].pc = uc[q].pc
                                       /\ uc'[q].result = uc[q].result]_vars

\* a digest goroutine has failed after its request succeeded, while the
\* other request is still between its update and its notification
C21_Witness ==
    \E p, q \in Callers :
        /\ uc[p].bg = "done" /\ uc[p].result = "ok"
        /\ db.Sha256Hash = ""
        /\ uc[q].pc \in {"updated", "notifying"}

\* C22: a quarantined media item gets the outcome of an unknown one, from
\* the download handler and from the upload handler: the upload pipeline's
\* answer "quarantined" ends the request with "not found".
C22_QuarantinedLooksNotFound ==
    /\ handleDownloadError("ErrMediaQuarantined")
          = handleDownloadError("ErrMediaNotFound")
    /\ [][\A taken \in 0..MaxBody :
             UploadMedia_Upload("quarantined", taken)
                => um'.result = handleDownloadError("ErrMediaNotFound")]_vars

\* an option that is switched on
Enabled(option) == option \in {"true", "1"}

\* C23: the capabilities of the facade by backend type: on ipfs DeleteObject
\* succeeds and removes nothing and OverwriteObject is unsupported; on every
\* type but s3 ObjectInfo, GetUploadURL and GetDownloadURL answer the fixed
\* error ErrS3Required without a call to a backend, and ShouldRedirectUpload
\* and ShouldRedirectDownload are false; on s3 they are the configured
\* options.
C23_CapabilityTable ==
    /\ [](/\ ref.op = "DeleteObject" /\ refArgs.Type = "ipfs"
               => ref.err = "" /\ ref.calls = <<>>
          /\ ref.op \in {"ObjectInfo", "GetUploadURL", "GetDownloadURL"}
                /\ refArgs.Type # "s3"
               => ref.err = ErrS3Required /\ ref.calls = <<>> /\ ref.url = ""
          /\ ref.op = "OverwriteObject" /\ refArgs.Type = "ipfs"
               => ref.err = "unsupported operation" /\ ref.calls = <<>>
          /\ ref.op = "ShouldRedirectUpload"
               => ref.flag = (refArgs.Type = "s3" /\ Enabled(refArgs.redirectUploads))
          /\ ref.op = "ShouldRedirectDownload"
               => ref.flag = (refArgs.Type = "s3" /\ Enabled(refArgs.redirectDownloads)))
    /\ [][refArgs.Type = "ipfs" => UNCHANGED refObject]_vars

\* DeleteObject has answered on an ipfs datastore that holds the object
C23_Witness ==
    /\ ref.op = "DeleteObject" /\ refArgs.Type = "ipfs"
    /\ ref.err = "" /\ refObject

\* C24: every call of UploadFile returns: once the two goroutines are
\* started, the caller gets both values from done and returns.
C24_UploadFileReturns ==
    (upMain.pc = "waiting") ~> (upMain.pc = "returned")

\* line 209 has returned an error: io.Copy(f, rs3) stopped at a write to
\* the temp file that failed
CopyFailed == uploader.pc = "reopen" /\ uploader.uploadErr

\* C26: once the copy of the stream into the temp file has failed,
\* UploadFile returns an error, never a descriptor.
C26_FailedCopyReturnsError ==
    [](CopyFailed => [](upMain.pc = "returned" => upMain.result.err # ""))

\* handle h, woken by NotifyUpload call n, is still in the set that the
\* later NotifyUpload call m read under the lock
SignalledAndStillListed(h, n, m) ==
    /\ n # m
    /\ hist[h].recv = <<"notify", n>>
    /\ owner[h].pc = "deferred"
    /\ notif[m].pc = "sending" /\ h \in notif[m].snap

\* C25: a NotifyUpload that takes the lock while a handle woken by an
\* earlier NotifyUpload is still in the key's set does not block on that
\* handle: it returns, and the handle gets no second signal.
C25_SignalledAtMostOnce ==
    /\ \A h \in Handles, n, m \in Callers :
          SignalledAndStillListed(h, n, m) ~> (notif[m].pc = "done")
    /\ [][\A h \in Handles, m \in Callers :
             hist[h].recv[1] = "notify" => ~NotifyUpload_Send(m, h)]_vars

\* C27: a NotifyUpload for one (origin, mediaId) pair signals only handles
\* that were registered with that pair.
C27_SetsSeparatePerPair ==
    [][\A n \in Callers, h \in Handles :
          NotifyUpload_Send(n, h) => owner[h].pair = notif[n].pair]_vars

\* NotifyUpload call n is in a send that no goroutine can receive now
BlockedInSend(n) ==
    /\ notif[n].pc = "sending"
    /\ notif[n].rem # {}
    /\ \A h \in notif[n].rem : ~ReceiverReady(h)

\* C28: the mutex is not held by an operation that is blocked: a waiter
\* parked in the select of WaitForUpload does not hold it, and a
\* NotifyUpload that holds it is not blocked in a send, so calls for other
\* keys can take the lock.
C28_LockNeverHeldWhileBlocked ==
    /\ \A h \in Handles : owner[h].pc = "select" => waiterLock # <<"wait", h>>
    /\ \A n \in Callers : waiterLock = <<"notify", n>> => ~BlockedInSend(n)

====
